---- MODULE Spec2Model ----
(***************************************************************************)
(* A model of rank_papers (src/utils/ranking.py) and of the citation       *)
(* lookup get_citation_data (src/utils/helpers.py) it calls.               *)
(*                                                                         *)
(* One call of rank_papers is a sequential pipeline; pc is the position of *)
(* the call in it.  The collaborators (the TF-IDF vectorizer, the remote   *)
(* citation service, the progress reporter, the clock) are the             *)
(* environment: their outcomes are chosen nondeterministically.            *)
(*                                                                         *)
(* Python dicts are records whose DOMAIN is the dict's key set, so         *)
(* "key in d" is  key \in DOMAIN d.  Scores are exact rationals in lowest  *)
(* terms: the order and the ties of the floating-point values the code     *)
(* computes are those of the rationals for the inputs drawn here.          *)
(***************************************************************************)
EXTENDS Integers, Sequences, FiniteSets, TLC

(* ------------------------------ bounds ------------------------------- *)

\* Largest batch handed to rank_papers.
MaxPapers == 2

\* Largest citation count the remote service reports.
MaxCitations == 2

(* ------------------------- program constants ------------------------- *)

\* datetime.datetime.now().year
current_year == 2026

\* the divisor of the recency decay: (current_year - pub_year) / 10
DecayYears == 10

\* 0.6 * title_similarity + 0.4 * abstract_similarity, in tenths
TitleWeight == 6
AbstractWeight == 4

\* 0.5 * relevance + 0.4 * citation + 0.1 * recency, in tenths
RelevanceWeight == 5
CitationWeight == 4
RecencyWeight == 1

(* ----------------------------- rationals ----------------------------- *)

Abs(x) == IF x < 0 THEN -x ELSE x

RECURSIVE GCD(_, _)
GCD(a, b) == IF b = 0 THEN a ELSE GCD(b, a % b)

\* n/d in lowest terms with a positive denominator (d # 0).
Rat(n, d) ==
    LET g == GCD(Abs(n), Abs(d))
        s == IF d < 0 THEN -1 ELSE 1
    IN  [num |-> (s * n) \div g, den |-> (s * d) \div g]

Zero == Rat(0, 1)
One == Rat(1, 1)

RatAdd(a, b) == Rat(a.num * b.den + b.num * a.den, a.den * b.den)
RatSub(a, b) == Rat(a.num * b.den - b.num * a.den, a.den * b.den)
RatMul(a, b) == Rat(a.num * b.num, a.den * b.den)
RatLess(a, b) == a.num * b.den < b.num * a.den
RatLeq(a, b) == a.num * b.den <= b.num * a.den
RatMax(a, b) == IF RatLess(a, b) THEN b ELSE a
RatMin(a, b) == IF RatLess(b, a) THEN b ELSE a

(* ------------------------------- None -------------------------------- *)

\* Python's None where an object (a reporter, a citation_data dict) may stand.
None == [none |-> TRUE]

\* An optional scalar: <<>> is None, <<v>> is the value v.
NoValue == <<>>
Some(v) == <<v>>

(* ------------------------------- texts ------------------------------- *)

\* A text is a sequence of lower-case words.  TfidfVectorizer(stop_words=
\* 'english') drops the stop words before it builds the vocabulary.
StopWords == {"the", "of"}

Range(s) == {s[k] : k \in 1..Len(s)}

\* The terms of a document after tokenisation and stop-word removal.
Analyze(text) == Range(text) \ StopWords

\* fit_transform(docs): the vocabulary of the fitted corpus.
Vocabulary(docs) == UNION {Analyze(docs[k]) : k \in 1..Len(docs)}

\* fit_transform raises ValueError("empty vocabulary; ...") when no document
\* of the corpus contributes a term.
FitRaises(docs) == Vocabulary(docs) = {}

\* cosine_similarity of two TF-IDF rows.  A row without terms is the zero
\* vector and has similarity 0 to everything.  A document with exactly one
\* distinct term is, after L2 normalisation, the unit vector of that term,
\* so two such rows have similarity 1 when the terms agree and 0 otherwise.
\* The texts drawn below have at most one distinct term, where this is exact.
CosineSimilarity(q, d) ==
    IF Analyze(q) = {} \/ Analyze(d) = {} THEN Zero
    ELSE IF Analyze(q) = Analyze(d) THEN One
    ELSE Zero

\* cosine_similarity(matrix[-1], matrix[:-1]).flatten(): one value per paper.
Similarities(texts, query) ==
    [k \in 1..Len(texts) |-> CosineSimilarity(query, texts[k])]

(* ------------------------------- dates ------------------------------- *)

Digits == <<"0", "1", "2", "3", "4", "5", "6", "7", "8", "9">>

DigitValue(c) == (CHOOSE k \in 1..10 : Digits[k] = c) - 1

RECURSIVE ParseInt(_)
\* int(s) of a string of decimal digits
ParseInt(s) ==
    IF Len(s) = 0 THEN 0
    ELSE 10 * ParseInt(SubSeq(s, 1, Len(s) - 1)) + DigitValue(s[Len(s)])

\* int(paper['published'][:4])
PubYear(published) == ParseInt(SubSeq(published, 1, 4))

\* The recency score without the clamp of line 105.
RecencyScoreUnclamped(published) ==
    RatSub(One, Rat(current_year - PubYear(published), DecayYears))

\* recency_score = max(0, min(1, 1 - (current_year - pub_year) / 10))
RecencyScore(published) ==
    LET age == current_year - PubYear(published)
        raw == RatSub(One, Rat(age, DecayYears))
    IN  RatMax(Zero, RatMin(One, raw))

(* -------------------------- citation lookup -------------------------- *)

\* The JSON payloads the remote service answers with on success.
Payloads ==
    {[citations |-> c, influentialCitationCount |-> c \div 2,
      references |-> 1, year |-> Some(2020)] : c \in 0..MaxCitations}

\* get_citation_data: the dict built from a successful response.
CitationData(data) ==
    [citation_count |-> data.citations,
     influential_citation_count |-> data.influentialCitationCount,
     references |-> data.references,
     year |-> data.year]

\* get_citation_data: default_result, returned on requests.RequestException.
default_result ==
    [citation_count |-> 0,
     influential_citation_count |-> 0,
     references |-> 0,
     year |-> NoValue]

\* rank_papers: the dict stored when the loop body raises an Exception.
FailedCitationData ==
    [citation_count |-> 0, error |-> "Failed to fetch"]

(* ------------------------------ scoring ------------------------------ *)

\* dict.get(key, default)
Get(d, key, default) == IF key \in DOMAIN d THEN d[key] ELSE default

\* dict[key] = value on a copy of the dict
Put(d, key, value) ==
    [k \in DOMAIN d \cup {key} |-> IF k = key THEN value ELSE d[k]]

\* p.get('citation_data', {}).get('citation_count', 0)
CitationCountOf(p) ==
    IF "citation_data" \in DOMAIN p
    THEN Get(p["citation_data"], "citation_count", 0)
    ELSE 0

SetMax(S) == CHOOSE m \in S : \A x \in S : x <= m

\* The normaliser taken from the first paper instead of the whole batch.
MaxCitationsOfFirst(ps) ==
    LET m == CitationCountOf(ps[1])
    IN  IF m = 0 THEN 1 ELSE m

\* max([... for p in papers]) or 1
MaxCitationsOf(ps) ==
    LET m == SetMax({CitationCountOf(ps[k]) : k \in 1..Len(ps)})
    IN  IF m = 0 THEN 1 ELSE m

\* The citation score with the use_citations test of line 92 left out.
CitationScoreIgnoringFlag(ps, paper, useCitations) ==
    IF "citation_data" \in DOMAIN paper
    THEN Rat(Get(paper["citation_data"], "citation_count", 0), MaxCitationsOf(ps))
    ELSE Zero

\* citation_score of one paper
CitationScore(ps, paper, useCitations) ==
    IF useCitations /\ "citation_data" \in DOMAIN paper
    THEN Rat(Get(paper["citation_data"], "citation_count", 0), MaxCitationsOf(ps))
    ELSE Zero

\* relevance_score = 0.6 * title_similarity + 0.4 * abstract_similarity
RelevanceScore(titleSim, abstractSim) ==
    RatAdd(RatMul(Rat(TitleWeight, 10), titleSim),
           RatMul(Rat(AbstractWeight, 10), abstractSim))

\* combined_score = 0.5 * relevance + 0.4 * citation + 0.1 * recency
CombinedScore(relevance, citation, recency) ==
    RatAdd(RatAdd(RatMul(Rat(RelevanceWeight, 10), relevance),
                  RatMul(Rat(CitationWeight, 10), citation)),
           RatMul(Rat(RecencyWeight, 10), recency))

\* paper['scores']
ScoresOf(ps, paper, useCitations, titleSim, abstractSim) ==
    LET relevance == RelevanceScore(titleSim, abstractSim)
        citation == CitationScore(ps, paper, useCitations)
        recency == RecencyScore(paper["published"])
    IN  [relevance |-> relevance,
         citation |-> citation,
         recency |-> recency,
         combined |-> CombinedScore(relevance, citation, recency)]

(* ------------------------------- sort -------------------------------- *)

\* A sort that is not stable: x goes before the items of equal key.
InsertPositionUnstable(sorted, x) ==
    Cardinality({k \in 1..Len(sorted) : RatLess(x[2], sorted[k][2])}) + 1

\* Where list.sort(key=..., reverse=True) puts x among the already sorted
\* items: after every item whose key is not smaller (the sort is stable).
InsertPosition(sorted, x) ==
    Cardinality({k \in 1..Len(sorted) : RatLeq(x[2], sorted[k][2])}) + 1

InsertAt(s, pos, x) ==
    SubSeq(s, 1, pos - 1) \o <<x>> \o SubSeq(s, pos, Len(s))

RECURSIVE SortDescending(_)
\* scored_papers.sort(key=lambda x: x[1], reverse=True)
SortDescending(s) ==
    IF Len(s) = 0 THEN <<>>
    ELSE LET front == SortDescending(SubSeq(s, 1, Len(s) - 1))
             x == s[Len(s)]
         IN  InsertAt(front, InsertPosition(front, x), x)

(* ------------------------- progress reporter ------------------------- *)

\* A rich Progress: how often it was entered and exited, and its tasks.
NewProgress == [started |-> 0, stopped |-> 0, tasks |-> <<>>]

\* Progress.__enter__
Enter(p) == [p EXCEPT !.started = @ + 1]

\* Progress.__exit__
Exit(p) == [p EXCEPT !.stopped = @ + 1]

\* Progress.add_task(description, total): the task is appended; its id is
\* its position.
AddTask(p, total) ==
    [p EXCEPT !.tasks = Append(@, [total |-> total, completed |-> 0])]

\* Progress.update(task_id, completed=n)
Update(p, task, n) == [p EXCEPT !.tasks[task].completed = n]

\* The loop of lines 47-49 left out: the caller's tasks stay as they were.
CompleteNone(p) == p

\* for task in initial_tasks: external_progress.update(task.id, completed=1.0)
CompleteAll(p) ==
    [p EXCEPT !.tasks = [k \in 1..Len(@) |-> [@[k] EXCEPT !.completed = 1]]]

\* The reporter is open: entered and not yet exited.
IsOpen(p) == p # None /\ p.started > p.stopped

(* ------------------------------ inputs ------------------------------- *)

\* Paper records as query_arxiv builds them (the fields rank_papers reads).
\* "b" arrives with a citation_data attachment of an earlier ranking.
PaperPool ==
    {[id |-> "a", title |-> <<"quantum">>, abstract |-> <<"the", "quantum">>,
      published |-> <<"2", "0", "2", "6", "-", "0", "3">>],
     [id |-> "b", title |-> <<"quantum">>, abstract |-> <<"the", "quantum">>,
      published |-> <<"2", "0", "2", "7", "-", "0", "1">>,
      citation_data |-> [citation_count |-> 2, influential_citation_count |-> 1,
                         references |-> 1, year |-> Some(2019)]],
     [id |-> "c", title |-> <<"the">>, abstract |-> <<"of", "the">>,
      published |-> <<"2", "0", "1", "0", "-", "1", "2">>],
     [id |-> "d", title |-> <<"graph">>, abstract |-> <<"quantum">>,
      published |-> <<"2", "0", "2", "1", "-", "0", "6">>],
     [id |-> "e", title |-> <<"of", "graph">>, abstract |-> <<"graph">>,
      published |-> <<"2", "0", "1", "6", "-", "1", "1">>]}

\* Batches: identifiers are unique within a batch.
Batches ==
    UNION {{b \in [1..n -> PaperPool] : \A x, y \in 1..n : b[x] = b[y] => x = y}
           : n \in 0..MaxPapers}

Queries == {<<"the">>, <<"quantum">>}

\* The reporter cli.start passes: entered by its with-statement, holding the
\* "Searching arXiv..." task (total=None) when there is one.
CallerProgress(n) ==
    [started |-> 1, stopped |-> 0,
     tasks |-> [k \in 1..n |-> [total |-> NoValue, completed |-> 0]]]

ExternalReporters == {None, CallerProgress(0), CallerProgress(1)}

(* ------------------------------- state ------------------------------- *)

VARIABLES
    papers,                 \* the list passed in; its dicts are mutated in place
    user_query,
    use_citations,
    external_progress,      \* None or the caller's reporter
    progress_obj,           \* None or the reporter this call created
    citation_task,          \* 0 (None) or the id of the citation task
    abstract_similarities,
    title_similarities,
    i,                      \* index of the enrichment loop, from 1
    scored_papers,          \* <<paper, combined_score>> pairs
    pc,                     \* position of the call
    exc,                    \* "none" or the exception in flight / raised
    result,                 \* the returned list
    calls,                  \* history: the collaborator calls made so far
    outcome,                \* history: how each paper's loop body ended
    entry                   \* history: the arguments as they were at entry

vars == <<papers, user_query, use_citations, external_progress, progress_obj,
          citation_task, abstract_similarities, title_similarities, i,
          scored_papers, pc, exc, result, calls, outcome, entry>>

Call(op, on, arg) == [op |-> op, on |-> on, arg |-> arg]

\* Which reporter the call works on: `if external_progress:`
Borrowed == external_progress # None

Init ==
    /\ papers \in Batches
    /\ user_query \in Queries
    /\ use_citations \in BOOLEAN
    /\ external_progress \in ExternalReporters
    /\ progress_obj = None
    /\ citation_task = 0
    /\ abstract_similarities = <<>>
    /\ title_similarities = <<>>
    /\ i = 1
    /\ scored_papers = <<>>
    /\ pc = "entry"
    /\ exc = "none"
    /\ result = <<>>
    /\ calls = <<>>
    /\ outcome = [k \in 1..Len(papers) |-> "none"]
    /\ entry = [papers |-> papers, external_progress |-> external_progress]

(* ------------------------------ actions ------------------------------ *)

\* The empty check placed after the reporter was created and entered.
ReturnEmptyLate ==
    /\ pc = "entry"
    /\ papers = <<>>
    /\ result' = <<>>
    /\ pc' = "returned"
    /\ IF use_citations /\ ~Borrowed
       THEN /\ progress_obj' = Exit(Enter(NewProgress))
            /\ calls' = calls \o <<Call("enter", "own", 0), Call("exit", "own", 0)>>
       ELSE UNCHANGED <<progress_obj, calls>>
    /\ UNCHANGED <<papers, user_query, use_citations, external_progress,
                   citation_task, abstract_similarities, title_similarities, i,
                   scored_papers, exc, outcome, entry>>

\* if not papers: return []
ReturnEmpty ==
    /\ pc = "entry"
    /\ papers = <<>>
    /\ result' = <<>>
    /\ pc' = "returned"
    /\ UNCHANGED <<papers, user_query, use_citations, external_progress,
                   progress_obj, citation_task, abstract_similarities,
                   title_similarities, i, scored_papers, exc, calls, outcome,
                   entry>>

Abstracts == [k \in 1..Len(papers) |-> papers[k]["abstract"]]
Titles == [k \in 1..Len(papers) |-> papers[k]["title"]]

\* Lines 24-37: both vectorizers fit, both similarity arrays computed.
SimilarityPass ==
    /\ pc = "entry"
    /\ papers # <<>>
    /\ ~FitRaises(Append(Abstracts, user_query))
    /\ ~FitRaises(Append(Titles, user_query))
    /\ abstract_similarities' = Similarities(Abstracts, user_query)
    /\ title_similarities' = Similarities(Titles, user_query)
    /\ calls' = calls \o <<Call("fit_transform", "abstract", 0),
                           Call("fit_transform", "title", 0)>>
    /\ pc' = IF use_citations THEN "setup" ELSE "score"
    /\ UNCHANGED <<papers, user_query, use_citations, external_progress,
                   progress_obj, citation_task, i, scored_papers, exc, result,
                   outcome, entry>>

\* Lines 32-33: fit_transform raises ValueError on an empty vocabulary; no
\* handler encloses it, so it leaves rank_papers.
SimilarityRaises ==
    /\ pc = "entry"
    /\ papers # <<>>
    /\ \/ FitRaises(Append(Abstracts, user_query))
       \/ FitRaises(Append(Titles, user_query))
    /\ calls' = Append(calls, Call("fit_transform", "abstract", 0))
    /\ exc' = "ValueError"
    /\ pc' = "raised"
    /\ UNCHANGED <<papers, user_query, use_citations, external_progress,
                   progress_obj, citation_task, abstract_similarities,
                   title_similarities, i, scored_papers, result, outcome,
                   entry>>

\* Lines 44-53: the caller's reporter is used; its tasks are completed and
\* the citation task is added to it.
SetupBorrowed ==
    /\ pc = "setup"
    /\ Borrowed
    /\ external_progress' = AddTask(CompleteAll(external_progress), Some(Len(papers)))
    /\ citation_task' = Len(external_progress.tasks) + 1
    /\ calls' = calls
                \o [k \in 1..Len(external_progress.tasks) |-> Call("update", "external", k)]
                \o <<Call("add_task", "external", Len(external_progress.tasks) + 1)>>
    /\ pc' = "update"
    /\ UNCHANGED <<papers, user_query, use_citations, progress_obj,
                   abstract_similarities, title_similarities, i, scored_papers,
                   exc, result, outcome, entry>>

\* Lines 54-65: the call creates its own reporter, enters it and adds the
\* citation task.
SetupOwned ==
    /\ pc = "setup"
    /\ ~Borrowed
    /\ progress_obj' = AddTask(Enter(NewProgress), Some(Len(papers)))
    /\ citation_task' = 1
    /\ calls' = calls \o <<Call("enter", "own", 0), Call("add_task", "own", 1)>>
    /\ pc' = "update"
    /\ UNCHANGED <<papers, user_query, use_citations, external_progress,
                   abstract_similarities, title_similarities, i, scored_papers,
                   exc, result, outcome, entry>>

\* Lines 52 and 65: add_task raises.  Both calls stand before the try of
\* line 67, so the exception leaves rank_papers without passing the finally.
AddTaskRaises ==
    /\ pc = "setup"
    /\ IF Borrowed
       THEN /\ external_progress' = CompleteAll(external_progress)
            /\ calls' = calls
                 \o [k \in 1..Len(external_progress.tasks) |-> Call("update", "external", k)]
            /\ UNCHANGED progress_obj
       ELSE /\ progress_obj' = Enter(NewProgress)
            /\ calls' = Append(calls, Call("enter", "own", 0))
            /\ UNCHANGED external_progress
    /\ exc' = "KeyboardInterrupt"
    /\ pc' = "raised"
    /\ UNCHANGED <<papers, user_query, use_citations, citation_task,
                   abstract_similarities, title_similarities, i, scored_papers,
                   result, outcome, entry>>

\* The reporter the loop updates (progress_obj of line 53 or line 56).
UpdateReporter ==
    IF Borrowed
    THEN /\ external_progress' = Update(external_progress, citation_task, i)
         /\ UNCHANGED progress_obj
    ELSE /\ progress_obj' = Update(progress_obj, citation_task, i)
         /\ UNCHANGED external_progress

ReporterName == IF Borrowed THEN "external" ELSE "own"

\* Lines 71-72: progress_obj.update(citation_task, completed=i+1, ...)
ProgressUpdate ==
    /\ pc = "update"
    /\ UpdateReporter
    /\ calls' = Append(calls, Call("update", ReporterName, i))
    /\ pc' = "lookup"
    /\ UNCHANGED <<papers, user_query, use_citations, citation_task,
                   abstract_similarities, title_similarities, i, scored_papers,
                   exc, result, outcome, entry>>

\* Lines 71-75: the update raises an Exception; the handler of line 74 stores
\* the failure dict and get_citation_data is not called for this paper.
ProgressUpdateRaises ==
    /\ pc = "update"
    /\ papers' = [papers EXCEPT ![i] = Put(@, "citation_data", FailedCitationData)]
    /\ outcome' = [outcome EXCEPT ![i] = "update_raised"]
    /\ calls' = Append(calls, Call("update", ReporterName, i))
    /\ pc' = "sleep"
    /\ UNCHANGED <<user_query, use_citations, external_progress, progress_obj,
                   citation_task, abstract_similarities, title_similarities, i,
                   scored_papers, exc, result, entry>>

\* Line 73 with helpers.py 128-137: the service answers, the dict is stored.
LookupSucceeds ==
    /\ pc = "lookup"
    /\ \E data \in Payloads :
          papers' = [papers EXCEPT ![i] = Put(@, "citation_data", CitationData(data))]
    /\ outcome' = [outcome EXCEPT ![i] = "ok"]
    /\ calls' = Append(calls, Call("get_citation_data", papers[i]["id"], i))
    /\ pc' = "sleep"
    /\ UNCHANGED <<user_query, use_citations, external_progress, progress_obj,
                   citation_task, abstract_similarities, title_similarities, i,
                   scored_papers, exc, result, entry>>

\* Line 73 with helpers.py 138-148: requests raises a RequestException;
\* get_citation_data returns default_result.
LookupRequestError ==
    /\ pc = "lookup"
    /\ papers' = [papers EXCEPT ![i] = Put(@, "citation_data", default_result)]
    /\ outcome' = [outcome EXCEPT ![i] = "request_error"]
    /\ calls' = Append(calls, Call("get_citation_data", papers[i]["id"], i))
    /\ pc' = "sleep"
    /\ UNCHANGED <<user_query, use_citations, external_progress, progress_obj,
                   citation_task, abstract_similarities, title_similarities, i,
                   scored_papers, exc, result, entry>>

\* The loop body without the handler of line 74: the exception of the
\* lookup passes through the finally and leaves rank_papers.
LookupRaisesUncaught ==
    /\ pc = "lookup"
    /\ outcome' = [outcome EXCEPT ![i] = "lookup_raised"]
    /\ calls' = Append(calls, Call("get_citation_data", papers[i]["id"], i))
    /\ exc' = "Exception"
    /\ pc' = "finally"
    /\ UNCHANGED <<papers, user_query, use_citations, external_progress,
                   progress_obj, citation_task, abstract_similarities,
                   title_similarities, i, scored_papers, result, entry>>

\* Lines 73-75: get_citation_data raises an Exception that is no
\* RequestException (a malformed payload); the handler of line 74 stores the
\* failure dict.
LookupRaises ==
    /\ pc = "lookup"
    /\ papers' = [papers EXCEPT ![i] = Put(@, "citation_data", FailedCitationData)]
    /\ outcome' = [outcome EXCEPT ![i] = "lookup_raised"]
    /\ calls' = Append(calls, Call("get_citation_data", papers[i]["id"], i))
    /\ pc' = "sleep"
    /\ UNCHANGED <<user_query, use_citations, external_progress, progress_obj,
                   citation_task, abstract_similarities, title_similarities, i,
                   scored_papers, exc, result, entry>>

\* Line 78: time.sleep(0.5), then the next iteration or the end of the loop.
Sleep ==
    /\ pc = "sleep"
    /\ calls' = Append(calls, Call("sleep", "time", i))
    /\ i' = i + 1
    /\ pc' = IF i = Len(papers) THEN "finally" ELSE "update"
    /\ UNCHANGED <<papers, user_query, use_citations, external_progress,
                   progress_obj, citation_task, abstract_similarities,
                   title_similarities, scored_papers, exc, result, outcome,
                   entry>>

\* Lines 69-78: a BaseException that is no Exception (KeyboardInterrupt)
\* arrives during the update, the lookup or the delay.  `except Exception`
\* does not catch it; control passes to the finally of line 79.
Interrupt ==
    /\ pc \in {"update", "lookup", "sleep"}
    /\ exc' = "KeyboardInterrupt"
    /\ calls' = Append(calls,
                  CASE pc = "update" -> Call("update", ReporterName, i)
                    [] pc = "lookup" -> Call("get_citation_data", papers[i]["id"], i)
                    [] pc = "sleep" -> Call("sleep", "time", i))
    /\ pc' = "finally"
    /\ UNCHANGED <<papers, user_query, use_citations, external_progress,
                   progress_obj, citation_task, abstract_similarities,
                   title_similarities, i, scored_papers, result, outcome,
                   entry>>

\* The finally without the ownership test of line 81: whatever reporter the
\* loop used is exited.
FinallyAlwaysExits ==
    /\ pc = "finally"
    /\ IF Borrowed
       THEN /\ external_progress' = Exit(external_progress)
            /\ calls' = Append(calls, Call("exit", "external", 0))
            /\ UNCHANGED progress_obj
       ELSE /\ progress_obj' = Exit(progress_obj)
            /\ calls' = Append(calls, Call("exit", "own", 0))
            /\ UNCHANGED external_progress
    /\ pc' = IF exc = "none" THEN "score" ELSE "raised"
    /\ UNCHANGED <<papers, user_query, use_citations, citation_task,
                   abstract_similarities, title_similarities, i, scored_papers,
                   exc, result, outcome, entry>>

\* Lines 79-82: the reporter is exited only if this call created it; an
\* exception in flight then leaves rank_papers.
Finally ==
    /\ pc = "finally"
    /\ IF ~Borrowed
       THEN /\ progress_obj' = Exit(progress_obj)
            /\ calls' = Append(calls, Call("exit", "own", 0))
       ELSE UNCHANGED <<progress_obj, calls>>
    /\ pc' = IF exc = "none" THEN "score" ELSE "raised"
    /\ UNCHANGED <<papers, user_query, use_citations, external_progress,
                   citation_task, abstract_similarities, title_similarities, i,
                   scored_papers, exc, result, outcome, entry>>

\* Lines 86-118: one iteration of the scoring loop, for the next paper.
ScorePaper ==
    /\ pc = "score"
    /\ LET j == Len(scored_papers) + 1
           scores == ScoresOf(papers, papers[j], use_citations,
                              title_similarities[j], abstract_similarities[j])
           paper == Put(papers[j], "scores", scores)
       IN  /\ papers' = [papers EXCEPT ![j] = paper]
           /\ scored_papers' = Append(scored_papers, <<paper, scores.combined>>)
           /\ pc' = IF j = Len(papers) THEN "sort" ELSE "score"
    /\ UNCHANGED <<user_query, use_citations, external_progress, progress_obj,
                   citation_task, abstract_similarities, title_similarities, i,
                   exc, result, calls, outcome, entry>>

\* Lines 121-124: sort, then return the papers without their keys.
SortAndReturn ==
    /\ pc = "sort"
    /\ scored_papers' = SortDescending(scored_papers)
    /\ result' = [k \in 1..Len(scored_papers) |-> scored_papers'[k][1]]
    /\ pc' = "returned"
    /\ UNCHANGED <<papers, user_query, use_citations, external_progress,
                   progress_obj, citation_task, abstract_similarities,
                   title_similarities, i, exc, calls, outcome, entry>>

Next ==
    \/ ReturnEmpty
    \/ SimilarityPass
    \/ SimilarityRaises
    \/ SetupBorrowed
    \/ SetupOwned
    \/ AddTaskRaises
    \/ ProgressUpdate
    \/ ProgressUpdateRaises
    \/ LookupSucceeds
    \/ LookupRequestError
    \/ LookupRaises
    \/ Sleep
    \/ Interrupt
    \/ Finally
    \/ ScorePaper
    \/ SortAndReturn

Spec == Init /\ [][Next]_vars

(* ------------------------------ claims ------------------------------- *)

N == Len(entry.papers)

IdsOf(ps) == [k \in 1..Len(ps) |-> ps[k]["id"]]

\* The position in the input batch of the paper with this identifier.
InputPosition(id) == CHOOSE k \in 1..N : entry.papers[k]["id"] = id

Combined(p) == p["scores"]["combined"]

Returned == pc = "returned"

\* C1: when rank_papers returns for a non-empty batch, the result is a
\* permutation of the input (same length, every input record exactly once),
\* ordered by non-increasing combined score, and papers of equal combined
\* score keep their input order.
C1_RankedPermutation ==
    (Returned /\ N > 0) =>
        /\ Len(result) = N
        /\ \A k \in 1..N :
              Cardinality({r \in 1..Len(result) :
                              result[r]["id"] = entry.papers[k]["id"]}) = 1
        /\ \A r \in 1..Len(result) : result[r] = papers[InputPosition(result[r]["id"])]
        /\ \A r \in 1..(Len(result) - 1) :
              RatLeq(Combined(result[r + 1]), Combined(result[r]))
        /\ \A r, t \in 1..Len(result) :
              (r < t /\ Combined(result[r]) = Combined(result[t]))
                 => InputPosition(result[r]["id"]) < InputPosition(result[t]["id"])

\* C1 witness: a returned batch of two papers with equal combined score.
C1_Witness ==
    /\ Returned
    /\ Len(result) = 2
    /\ Combined(result[1]) = Combined(result[2])

\* A returned batch whose order differs from the input order.
C1_Reordered ==
    /\ Returned
    /\ Len(result) = 2
    /\ result[1]["id"] = entry.papers[2]["id"]
    /\ RatLess(Combined(result[2]), Combined(result[1]))

\* C2: with an empty batch the call returns an empty result, raises nothing
\* and makes no collaborator call: no fit, no lookup, no delay, and no
\* operation on the caller's reporter or on a reporter of its own.
C2_EmptyBatch ==
    N = 0 =>
        /\ pc \in {"entry", "returned"}
        /\ result = <<>>
        /\ exc = "none"
        /\ calls = <<>>
        /\ external_progress = entry.external_progress
        /\ progress_obj = None

\* C2 witness: the empty batch returned by a call that requested citations
\* and passed no reporter (the call that would otherwise create one).
C2_Witness ==
    /\ Returned
    /\ N = 0
    /\ use_citations
    /\ external_progress = None

\* C3: with use_citations false the lookup is never called, and every score
\* breakdown has citation 0, also for a paper that arrived with a
\* citation_data of positive citation_count.
C3_NoCitations ==
    ~use_citations =>
        /\ \A c \in 1..Len(calls) : calls[c].op # "get_citation_data"
        /\ \A k \in 1..Len(papers) :
              "scores" \in DOMAIN papers[k] => papers[k]["scores"]["citation"] = Zero
        /\ Returned =>
              \A r \in 1..Len(result) :
                 /\ "scores" \in DOMAIN result[r]
                 /\ result[r]["scores"]["citation"] = Zero

\* C3 witness: a paper carrying a positive citation_count is returned by a
\* call without citations.
C3_Witness ==
    /\ Returned
    /\ ~use_citations
    /\ \E r \in 1..Len(result) :
          /\ "citation_data" \in DOMAIN result[r]
          /\ result[r]["citation_data"]["citation_count"] > 0

\* How a loop body ends when the lookup itself failed: inside
\* get_citation_data (RequestException) or raised out of it.
LookupFailures == {"request_error", "lookup_raised"}

ScoreFields == {"relevance", "citation", "recency", "combined"}

\* C4: with citations requested, a failed lookup of paper k (raised or
\* defaulted) does not end the call: the loop goes on to the delay and to
\* the next paper; when the call returns, the loop body has run for every
\* paper (the lookup was called for each paper whose progress update did
\* not itself raise), the result holds every input paper, and each paper
\* whose lookup failed has citation score 0 next to a populated relevance,
\* recency and combined score.
C4_LookupFailureTolerated ==
    use_citations =>
        /\ \A k \in 1..Len(papers) :
              outcome[k] \in LookupFailures =>
                 /\ (i = k /\ pc = "sleep") \/ i > k \/ exc = "KeyboardInterrupt"
                 /\ CitationCountOf(papers[k]) = 0
        /\ Returned =>
              /\ Len(result) = N
              /\ Range(IdsOf(result)) = Range(IdsOf(entry.papers))
              /\ \A k \in 1..N :
                    /\ outcome[k] # "none"
                    /\ outcome[k] # "update_raised" =>
                          \E c \in 1..Len(calls) :
                             calls[c] = Call("get_citation_data", entry.papers[k]["id"], k)
              /\ \A r \in 1..Len(result) :
                    outcome[InputPosition(result[r]["id"])] \in LookupFailures =>
                       /\ DOMAIN result[r]["scores"] = ScoreFields
                       /\ result[r]["scores"]["citation"] = Zero

\* C4 witness: the lookup failed for the first paper and succeeded with a
\* positive count for the second, and the call returned both.
C4_Witness ==
    /\ Returned
    /\ N = 2
    /\ outcome[1] \in LookupFailures
    /\ outcome[2] = "ok"
    /\ CitationCountOf(papers[2]) > 0
    /\ Len(result) = 2

\* A zeroed CitationData that also carries the error marker.
ZeroedWithError(cd) ==
    /\ "error" \in DOMAIN cd
    /\ Get(cd, "citation_count", -1) = 0
    /\ Get(cd, "influential_citation_count", -1) = 0
    /\ Get(cd, "references", -1) = 0
    /\ Get(cd, "year", NoValue) = NoValue

\* C5: every failed lookup, handled inside get_citation_data or caught in
\* rank_papers, leaves on its paper a zeroed CitationData (the three counts
\* 0, no year) carrying an error marker; a paper whose lookup succeeded
\* carries no error marker.
C5_FailureShape ==
    \A k \in 1..Len(papers) :
       /\ outcome[k] \in LookupFailures => ZeroedWithError(papers[k]["citation_data"])
       /\ outcome[k] = "ok" => "error" \notin DOMAIN papers[k]["citation_data"]

\* The call is over: it returned or an exception left it.
Exited == pc \in {"returned", "raised"}

\* C6: on the owning path (citations requested, no reporter passed in) the
\* reporter the call entered is exited exactly once by the time the call is
\* over, however it ends, and never twice.
C6_OwnedClosedOnce ==
    (use_citations /\ entry.external_progress = None /\ progress_obj # None) =>
        /\ progress_obj.stopped <= 1
        /\ (Exited /\ progress_obj.started > 0) => progress_obj.stopped = 1

\* C7: on the borrowed path the choice of reporter never changes during the
\* call, the call creates no reporter of its own, and the caller's reporter
\* is never entered or exited: it is as open after the call as before.
C7_BorrowedNeverFinalized ==
    /\ Borrowed <=> entry.external_progress # None
    /\ Borrowed =>
          /\ external_progress.started = entry.external_progress.started
          /\ external_progress.stopped = entry.external_progress.stopped
          /\ IsOpen(external_progress)
          /\ progress_obj = None
          /\ \A c \in 1..Len(calls) : calls[c].op \notin {"enter", "exit"}

\* C7 witness: an interrupt in the second iteration left the call through
\* the finally, on the borrowed path.
C7_Witness ==
    /\ pc = "raised"
    /\ Borrowed
    /\ exc = "KeyboardInterrupt"
    /\ citation_task # 0
    /\ i = 2

\* C8: with citations requested, each returned paper's citation score is
\* its citation_count over max(largest citation_count of the batch, 1):
\* every score lies in [0, 1], the holders of a positive batch maximum have
\* exactly 1, and when every count is 0 every score is 0.
C8_BatchRelativeCitation ==
    (Returned /\ use_citations /\ N > 0) =>
        LET count(r) == result[r]["citation_data"]["citation_count"]
            m == SetMax({count(r) : r \in 1..Len(result)})
            denominator == IF m > 1 THEN m ELSE 1
        IN  \A r \in 1..Len(result) :
               LET citation == result[r]["scores"]["citation"]
               IN  /\ citation.num * denominator = count(r) * citation.den
                   /\ RatLeq(Zero, citation) /\ RatLeq(citation, One)
                   /\ (m > 0 /\ count(r) = m) => citation = One
                   /\ m = 0 => citation = Zero

\* C8 witness: two papers with the counts 1 and 2 are returned with the
\* citation scores 1/2 and 1.
C8_Witness ==
    /\ Returned
    /\ use_citations
    /\ \E r, t \in 1..Len(result) :
          /\ result[r]["citation_data"]["citation_count"] = 1
          /\ result[t]["citation_data"]["citation_count"] = 2
          /\ result[r]["scores"]["citation"] = Rat(1, 2)
          /\ result[t]["scores"]["citation"] = One

\* The year a published date starts with, digit by digit.
LeadingYear(published) ==
    1000 * DigitValue(published[1]) + 100 * DigitValue(published[2])
    + 10 * DigitValue(published[3]) + DigitValue(published[4])

\* C9: the recency of every scored paper depends only on
\* age = current_year - published year: 1 for age <= 0, 0 for age >= 10,
\* and 1 - age/10 in between.
C9_Recency ==
    \A k \in 1..Len(papers) :
       "scores" \in DOMAIN papers[k] =>
          LET age == current_year - LeadingYear(papers[k]["published"])
          IN  papers[k]["scores"]["recency"] =
                 IF age <= 0 THEN One
                 ELSE IF age >= 10 THEN Zero
                 ELSE Rat(10 - age, 10)

\* C9 witness: a future-dated paper and a paper older than ten years are
\* returned with recency 1 and 0.
C9_Witness ==
    /\ Returned
    /\ \E r, t \in 1..Len(result) :
          /\ current_year - LeadingYear(result[r]["published"]) < 0
          /\ result[r]["scores"]["recency"] = One
          /\ current_year - LeadingYear(result[t]["published"]) > 10
          /\ result[t]["scores"]["recency"] = Zero

\* The title space or the abstract space of the call has no term left
\* after stop-word removal.
EmptyVocabulary ==
    \/ Vocabulary(Append([k \in 1..N |-> entry.papers[k]["abstract"]], user_query)) = {}
    \/ Vocabulary(Append([k \in 1..N |-> entry.papers[k]["title"]], user_query)) = {}

\* C10: for a non-empty batch with an empty vocabulary in a space, the call
\* does not raise; it returns the complete batch with similarity 0 in that
\* space (the query then has no term either, so every relevance is 0).
C10_EmptyVocabularySafe ==
    (N > 0 /\ EmptyVocabulary) =>
        /\ pc # "raised"
        /\ Returned =>
              /\ Len(result) = N
              /\ \A r \in 1..Len(result) : result[r]["scores"]["relevance"] = Zero

\* C11: the call only adds fields to a paper record: every field a record
\* carried at entry (identifier, texts, date, attachments) keeps its value,
\* with and without citations.
C11_InputFieldsUnchanged ==
    \A k \in 1..N :
       \A f \in DOMAIN entry.papers[k] :
          /\ f \in DOMAIN papers[k]
          /\ papers[k][f] = entry.papers[k][f]

\* The papers whose loop body is over: the lookup returned or failed.
Finished == {k \in 1..Len(papers) : outcome[k] # "none"}

\* The completed count the citation task reports.
Reported ==
    IF Borrowed
    THEN external_progress.tasks[citation_task].completed
    ELSE progress_obj.tasks[citation_task].completed

\* C12: while the citation task exists, the completed count it reports is
\* the number of papers whose lookup has finished: the event for paper i is
\* sent after the lookup of paper i.
C12_ProgressAfterLookup ==
    (citation_task # 0 /\ pc \in {"update", "lookup", "sleep"}) =>
        Reported = Cardinality(Finished)

\* The positions in the call log of the lookups and of the delays.
LookupCalls == {c \in 1..Len(calls) : calls[c].op = "get_citation_data"}
SleepCalls == {c \in 1..Len(calls) : calls[c].op = "sleep"}

\* C13: when a call with citations returns, the lookup was issued exactly
\* once for every paper, in batch order, after both fits and before any
\* score was computed, and a delay lies between any two consecutive lookups.
C13_OneLookupPerPaperInOrder ==
    /\ (use_citations /\ Returned) =>
          /\ \A k \in 1..N :
                Cardinality({c \in LookupCalls : calls[c].arg = k}) = 1
          /\ \A c, d \in LookupCalls :
                c < d =>
                   /\ calls[c].arg < calls[d].arg
                   /\ \E e \in SleepCalls : c < e /\ e < d
          /\ \A c \in LookupCalls :
                \E a, b \in 1..(c - 1) :
                   /\ calls[a] = Call("fit_transform", "abstract", 0)
                   /\ calls[b] = Call("fit_transform", "title", 0)
    /\ (LookupCalls # {} /\ pc \in {"update", "lookup", "sleep", "finally"}) =>
          \A k \in 1..Len(papers) : "scores" \notin DOMAIN papers[k]

\* The positions in the call log of the operations on the caller's reporter.
ExternalCalls == {c \in 1..Len(calls) : calls[c].on = "external"}

\* C14: with a caller's reporter and citations requested, once the setup of
\* a non-empty batch is over every task the reporter held at entry is
\* completed (1.0); these
\* updates precede the add_task of the citation task and every lookup.
\* Without citations the caller's reporter is not touched at all.
C14_CallerTasksCompletedFirst ==
    Borrowed =>
        /\ (use_citations /\ N > 0 /\ pc \notin {"entry", "setup"} /\ exc # "ValueError") =>
              LET held == Len(entry.external_progress.tasks)
              IN  /\ \A t \in 1..held :
                        /\ external_progress.tasks[t].completed = 1
                        /\ \E c \in ExternalCalls :
                              /\ calls[c] = Call("update", "external", t)
                              /\ \A d \in 1..Len(calls) :
                                    (calls[d].op \in {"add_task", "get_citation_data"})
                                       => c < d
                  /\ citation_task # 0 => citation_task = held + 1
        /\ ~use_citations =>
              /\ external_progress = entry.external_progress
              /\ ExternalCalls = {}

\* C14 witness: the caller's reporter held one unfinished task; the call
\* completed it, added the citation task and is about to look up paper 1.
C14_Witness ==
    /\ Borrowed
    /\ use_citations
    /\ Len(entry.external_progress.tasks) = 1
    /\ entry.external_progress.tasks[1].completed = 0
    /\ external_progress.tasks[1].completed = 1
    /\ citation_task = 2
    /\ pc = "lookup"
    /\ i = 1

====
